---- MODULE Spec2Model ----
(***************************************************************************)
(* A model of the fizzezpy utility modules:                                *)
(*   modules/data_proc_utils.py  get_consecutive_num_intervals,            *)
(*                               unstack_corr_df                           *)
(*   modules/math_utils.py       get_consecutive_num_intervals (a copy)    *)
(*   modules/exec_utils.py       timer                                     *)
(* Each function is an action applied to inputs drawn in the initial       *)
(* state; numpy / pandas primitives are operators that compute what the    *)
(* library call computes.                                                  *)
(***************************************************************************)
EXTENDS Integers, Sequences, FiniteSets, TLC

(* ---------------- bounds of the model ---------------- *)
\* longest input sequence of get_consecutive_num_intervals
MaxLen == 4
\* the elements of arr are drawn from 0..MaxVal
MaxVal == 3
\* largest number of labels of the matrix given to unstack_corr_df
MaxN == 3
\* matrices of up to MaxFullN labels are drawn without any restriction
MaxFullN == 2
\* off-diagonal entries of the larger matrices are drawn from 0..MaxCorr, in
\* units of 1/(MaxCorr + 1); their diagonal is 1.0, that is MaxCorr + 1
MaxCorr == 2
\* the clock readings of time.time() are 0..MaxClock
MaxClock == 3
\* number of with-blocks a behaviour runs one after the other
MaxUses == 2
\* number of get_logger calls of a behaviour
MaxCalls == 4

VARIABLES
    \* get_consecutive_num_intervals
    arr,        \* the input sequence (1-based here, 0-based in Python)
    arr_kind,   \* "list" or "ndarray": the two members of LST
    ret_idx,    \* the ret_idx flag
    pc,         \* "ready" before the call, "done" once it returned or raised
    called,     \* the module whose copy of the function was called
    bound_idx,  \* the rows of the 2-column array bound_idx
    dtype,      \* the dtype of bound_idx
    grouped,    \* the value runs returned when ret_idx is false
    raised      \* "none", or the exception the call ended with

ivars == <<arr, arr_kind, ret_idx, pc, called, bound_idx, dtype, grouped, raised>>

VARIABLES
    \* unstack_corr_df
    nlabels,    \* number of labels of corr
    corr,       \* the input matrix: corr[col][row], as pandas indexes it
    ascending,  \* the ascending flag
    cpc,        \* "ready" before the call, "done" after it
    corr_uns_sorted, \* the unstacked Series as sort_values left it
    columns,    \* the column names of the returned frame
    df_corr     \* the rows of the returned frame, in order

cvars == <<nlabels, corr, ascending, cpc, corr_uns_sorted, columns, df_corr>>

VARIABLES
    \* timer
    tpc,        \* "idle", "body" (suspended at the yield) or "closed"
    name,       \* the name argument
    logger,     \* "None" or "logger"
    now,        \* the reading of time.time()
    t0,         \* the local t0 of the generator
    emitted,    \* every message emitted so far, in order, with its sink
    uses,       \* number of with-blocks entered so far
    propagated  \* the exception that left the last with-block, or "none"

tvars == <<tpc, name, logger, now, t0, emitted, uses, propagated>>

VARIABLES
    \* get_logger: the root logger returned by logging.getLogger()
    root_handlers, \* logger.handlers, each handler tagged with the call that made it
    root_level,    \* the level of the root logger
    calls,         \* number of get_logger calls so far
    out_file,      \* the out_file argument of the most recent call
    outcome,       \* "returned" or the exception the most recent call raised
    set_up_logged  \* number of 'logger set up' records given to logger.info

lvars == <<root_handlers, root_level, calls, out_file, outcome, set_up_logged>>

vars == <<ivars, cvars, tvars, lvars>>

(* ---------------- numpy primitives ---------------- *)

\* np.diff with the operands of the subtraction swapped
Diff_Reversed(a) == [i \in 1..(Len(a) - 1) |-> a[i] - a[i + 1]]

\* np.diff(arr): out[i] = arr[i+1] - arr[i], length N-1 (empty for N <= 1)
Diff(a) == [i \in 1..(Len(a) - 1) |-> a[i + 1] - a[i]]

\* enumerate(np.diff(arr)): the 0-based positions 0..N-2, in order
Enumerate(d) == [i \in 1..Len(d) |-> i - 1]

\* the comprehension with the test "_diff > 1" in place of "not _diff == 1"
BoundList_GapOnly(a) ==
    LET d == Diff(a)
    IN  SelectSeq(Enumerate(d), LAMBDA i : d[i + 1] > 1)

\* [_i for _i, _diff in enumerate(np.diff(arr)) if not _diff == 1]
BoundList(a) ==
    LET d == Diff(a)
    IN  SelectSeq(Enumerate(d), LAMBDA i : ~(d[i + 1] = 1))

\* np.hstack([-1, bound_idx, len(arr) - 1])
HStack(a, bl) == <<-1>> \o bl \o <<Len(a) - 1>>

\* the dtype np.hstack gives: an empty Python list is a float64 array, and
\* concatenating it with the integer sentinels promotes the result to float64
HStackDtype(bl) == IF bl = <<>> THEN "float64" ELSE "int64"

\* np.vstack without the "+ 1" on the start column
VStackT_NoShift(b) == [k \in 1..(Len(b) - 1) |-> <<b[k], b[k + 1]>>]

\* np.vstack([bound_idx[:-1] + 1, bound_idx[1:]]).T
VStackT(b) == [k \in 1..(Len(b) - 1) |-> <<b[k] + 1, b[k + 1]>>]

\* np.arange(lo, hi + 1): empty when hi < lo
Arange(lo, hi) == [k \in 1..(hi - lo + 1) |-> lo + k - 1]

\* arr[_s] for a 0-based integer index; a negative index counts from the end
Item(a, i) == IF i < 0 THEN a[Len(a) + i + 1] ELSE a[i + 1]

\* [np.arange(arr[_s], arr[_e]+1) for _s, _e in bound_idx]
Runs(a, b) == [k \in 1..Len(b) |-> Arange(Item(a, b[k][1]), Item(a, b[k][2]))]

\* the rows of a list of arrays do not all have the same length
Ragged(rs) == \E i, j \in 1..Len(rs) : Len(rs[i]) # Len(rs[j])

\* indexing arr with a numpy.float64: a list raises TypeError, an ndarray
\* raises IndexError
FloatIndexError(kind) == IF kind = "list" THEN "TypeError" ELSE "IndexError"

(* ---------------- get_consecutive_num_intervals ---------------- *)

\* The body shared by the two copies of the function.  legacy_ragged is the
\* numpy build: builds before 1.24 turn a ragged list of arrays into an object
\* array, later builds raise ValueError.
GetIntervals(mod, legacy_ragged) ==
    LET bl == BoundList(arr)
        hs == HStack(arr, bl)
        bi == VStackT(hs)
        dt == HStackDtype(bl)
    IN  /\ pc = "ready"
        /\ pc' = "done"
        /\ called' = mod
        /\ bound_idx' = bi
        /\ dtype' = dt
        /\ IF ret_idx
           THEN /\ grouped' = <<>>
                /\ raised' = "none"
           ELSE IF dt = "float64"
           THEN \* arr[_s] with _s = 0.0
                /\ grouped' = <<>>
                /\ raised' = FloatIndexError(arr_kind)
           ELSE IF Ragged(Runs(arr, bi)) /\ ~legacy_ragged
           THEN /\ grouped' = <<>>
                /\ raised' = "ValueError"
           ELSE /\ grouped' = Runs(arr, bi)
                /\ raised' = "none"
        /\ UNCHANGED <<arr, arr_kind, ret_idx>>
        /\ UNCHANGED <<cvars, tvars, lvars>>

\* modules/data_proc_utils.py
get_consecutive_num_intervals ==
    \E legacy_ragged \in BOOLEAN : GetIntervals("data_proc_utils", legacy_ragged)

\* modules/math_utils.py
math_get_consecutive_num_intervals ==
    \E legacy_ragged \in BOOLEAN : GetIntervals("math_utils", legacy_ragged)

\* the integer sequences of length 0..MaxLen over 0..MaxVal
Arrs == UNION {[1..n -> 0..MaxVal] : n \in 0..MaxLen}

\* the parts of the state a specification does not exercise
IdleIntervals ==
    /\ arr = <<>>
    /\ arr_kind = "list"
    /\ ret_idx = TRUE
    /\ pc = "idle"
    /\ called = "none"
    /\ bound_idx = <<>>
    /\ dtype = "none"
    /\ grouped = <<>>
    /\ raised = "none"

IdleCorr ==
    /\ nlabels = 0
    /\ corr = <<>>
    /\ ascending = FALSE
    /\ cpc = "idle"
    /\ corr_uns_sorted = <<>>
    /\ columns = <<>>
    /\ df_corr = <<>>

IdleTimer ==
    /\ tpc = "off"
    /\ name = "none"
    /\ logger = "None"
    /\ now = 0
    /\ t0 = 0
    /\ emitted = <<>>
    /\ uses = 0
    /\ propagated = "none"

IdleLogger ==
    /\ root_handlers = <<>>
    /\ root_level = "WARNING"
    /\ calls = 0
    /\ out_file = "None"
    /\ outcome = "none"
    /\ set_up_logged = 0

InitIntervals ==
    /\ IdleCorr
    /\ IdleTimer
    /\ IdleLogger
    /\ arr \in Arrs
    /\ arr_kind \in {"list", "ndarray"}
    /\ ret_idx \in BOOLEAN
    /\ pc = "ready"
    /\ called = "none"
    /\ bound_idx = <<>>
    /\ dtype = "none"
    /\ grouped = <<>>
    /\ raised = "none"

NextIntervals ==
    \/ get_consecutive_num_intervals
    \/ math_get_consecutive_num_intervals

SpecIntervals == InitIntervals /\ [][NextIntervals]_vars

(* ---------------- properties of get_consecutive_num_intervals ---------------- *)

N == Len(arr)
NPairs == Len(bound_idx)
\* the 0-based start and end of the k-th returned pair
S(k) == bound_idx[k][1]
E(k) == bound_idx[k][2]
\* the call with ret_idx = True has returned
ReturnedIdx == pc = "done" /\ ret_idx /\ raised = "none"

\* C1: for N >= 1 the pairs returned with ret_idx=True partition [0, N-1]:
\* the first pair starts at 0, the last ends at N-1, every pair has s <= e,
\* and each pair starts at the previous pair's end + 1.
C1_PairsPartitionIndexRange ==
    (pc = "done" /\ ret_idx /\ N >= 1) =>
        /\ raised = "none"
        /\ NPairs >= 1
        /\ S(1) = 0
        /\ E(NPairs) = N - 1
        /\ \A k \in 1..NPairs : S(k) <= E(k)
        /\ \A k \in 2..NPairs : S(k) = E(k - 1) + 1

\* a call on an unsorted input with duplicates that returned several pairs
C1_Witness ==
    /\ ReturnedIdx
    /\ N = MaxLen
    /\ NPairs >= 3
    /\ \E i \in 1..(N - 1) : arr[i] > arr[i + 1]
    /\ \E i \in 1..(N - 1) : arr[i] = arr[i + 1]

\* the example of the docstring
DocExample == <<2, 3, 4, 5, 12, 13, 14, 15, 16, 17, 20>>

\* C2: for N >= 1 the pairs returned with ret_idx=True are the maximal runs
\* of increasing-by-one values: inside a pair every element is its
\* predecessor + 1, and the element after a pair that is not the last is not
\* the pair's last element + 1; the docstring example gives
\* [[0,3],[4,9],[10,10]].
C2_PairsAreMaximalRuns ==
    /\ (pc = "done" /\ ret_idx /\ N >= 1) =>
            /\ raised = "none"
            /\ \A k \in 1..NPairs :
                   /\ \A i \in (S(k) + 1)..E(k) : Item(arr, i) = Item(arr, i - 1) + 1
                   /\ k < NPairs => Item(arr, E(k) + 1) # Item(arr, E(k)) + 1
    /\ pc = "done" =>
            VStackT(HStack(DocExample, BoundList(DocExample)))
                = <<(<<0, 3>>), (<<4, 9>>), (<<10, 10>>)>>

\* a call that returned a run of three values next to a run it had to cut
C2_Witness ==
    /\ ReturnedIdx
    /\ NPairs >= 2
    /\ \E k \in 1..NPairs : E(k) - S(k) >= 2

\* every adjacent difference of arr is exactly 1
AllStepsOne == \A i \in 1..(N - 1) : arr[i + 1] - arr[i] = 1
\* arr is non-decreasing and every adjacent difference is 0 or 1
AllStepsZeroOrOne == \A i \in 1..(N - 1) : arr[i + 1] - arr[i] \in {0, 1}

\* C3 as stated: a non-decreasing arr of length N >= 1 whose adjacent
\* differences are all 0 or 1 gives the single interval [0, N-1].
C3_Original ==
    (pc = "done" /\ ret_idx /\ N >= 1 /\ AllStepsZeroOrOne) =>
        bound_idx = <<(<<0, N - 1>>)>>

\* C3 amended: an arr of length N >= 1 whose adjacent differences are all
\* exactly 1 gives the single interval [0, N-1].
C3_SingleRunSingleInterval ==
    (pc = "done" /\ ret_idx /\ N >= 1 /\ AllStepsOne) =>
        /\ raised = "none"
        /\ bound_idx = <<(<<0, N - 1>>)>>

\* a call on one run of at least three values
C3_Witness ==
    /\ ReturnedIdx
    /\ N >= 3
    /\ AllStepsOne
    /\ bound_idx = <<(<<0, N - 1>>)>>

\* C4: for the empty input the call returns an empty interval list when
\* ret_idx is true and an empty list of value runs when ret_idx is false,
\* and raises no error.
C4_EmptyInputGivesEmptyOutput ==
    (pc = "done" /\ N = 0) =>
        /\ raised = "none"
        /\ ret_idx => bound_idx = <<>>
        /\ ~ret_idx => grouped = <<>>

(* ---------------- pandas primitives ---------------- *)

\* the labels, in the order of the columns (and rows) of the matrix
Alphabet == <<"A", "B", "C", "D", "E">>
Labels(n) == {Alphabet[i] : i \in 1..n}

\* Python's order on the labels: str comparison
Rank(l) == CHOOSE i \in 1..Len(Alphabet) : Alphabet[i] = l

\* corr.unstack() pairing a (column, row) index with the value of another cell
Unstack_Transposed(c, n) ==
    [k \in 1..(n * n) |->
        LET col == Alphabet[((k - 1) \div n) + 1]
            row == Alphabet[((k - 1) % n) + 1]
        IN  [level_0 |-> col, level_1 |-> row, val |-> c[col][col]]]

\* corr.unstack(): a Series over the (column, row) MultiIndex, column-major,
\* the value at (column, row) being cell corr[column][row]
Unstack(c, n) ==
    [k \in 1..(n * n) |->
        LET col == Alphabet[((k - 1) \div n) + 1]
            row == Alphabet[((k - 1) % n) + 1]
        IN  [level_0 |-> col, level_1 |-> row, val |-> c[col][row]]]

\* v may come before w in a Series sorted with the given direction
Before(v, w, asc) == IF asc THEN v <= w ELSE v >= w

RECURSIVE Orders(_, _, _)
\* every arrangement of the entries idx of s that is sorted by val: the
\* default sort kind is quicksort, which is not stable, so that entries of
\* equal value may come out in any order
Orders(s, idx, asc) ==
    IF idx = {} THEN {<<>>}
    ELSE UNION {
            {<<s[x]>> \o rest : rest \in Orders(s, idx \ {x}, asc)} :
            x \in {y \in idx : \A z \in idx : Before(s[y].val, s[z].val, asc)}}

\* sort_values that ignores the ascending flag and sorts in ascending order
SortValues_AlwaysAscending(s, asc) == Orders(s, DOMAIN s, TRUE)

\* the possible results of corr_uns.sort_values(ascending=ascending)
SortValues(s, asc) == Orders(s, DOMAIN s, asc)

\* df_corr.query('level_0 != level_1')
Query(rows) == SelectSeq(rows, LAMBDA r : r.level_0 # r.level_1)

\* sorted([level_0, level_1])
Sorted(r) ==
    IF Rank(r.level_0) <= Rank(r.level_1)
    THEN <<r.level_0, r.level_1>>
    ELSE <<r.level_1, r.level_0>>

\* str(list): the repr of the two labels between brackets
Str(l) == "['" \o l[1] \o "', '" \o l[2] \o "']"

\* df_corr_cols.apply(sorted, 1).astype(str)
Keys(rows) == [i \in 1..Len(rows) |-> Str(Sorted(rows[i]))]

\* Series.duplicated(keep='last'): True for every occurrence but the last
Duplicated_KeepLast(keys) ==
    [i \in 1..Len(keys) |-> \E j \in (i + 1)..Len(keys) : keys[j] = keys[i]]

\* Series.duplicated(): True for every occurrence of a value but the first
Duplicated(keys) == [i \in 1..Len(keys) |-> \E j \in 1..(i - 1) : keys[j] = keys[i]]

\* a mask that drops no row
DupMask_KeepAll(rows) == [i \in 1..Len(rows) |-> TRUE]

\* ~df_corr_cols.apply(sorted, 1).astype(str).duplicated()
DupMask(rows) == [i \in 1..Len(rows) |-> ~Duplicated(Keys(rows))[i]]

RECURSIVE Masked(_, _)
\* df_corr[dup_mask]: the rows whose mask is True, in order
Masked(rows, mask) ==
    IF rows = <<>> THEN <<>>
    ELSE (IF Head(mask) THEN <<Head(rows)>> ELSE <<>>)
            \o Masked(Tail(rows), Tail(mask))

\* df_corr.columns = [col_name_1, col_name_2, 'corr'], the rows seen through
\* the new names; reset_index(drop=True) renumbers them 0, 1, ...
Renamed(rows) ==
    [i \in 1..Len(rows) |->
        [col_1 |-> rows[i].level_0, col_2 |-> rows[i].level_1, corr |-> rows[i].val]]

(* ---------------- unstack_corr_df ---------------- *)

unstack_corr_df ==
    /\ cpc = "ready"
    /\ \E sorted \in SortValues(Unstack(corr, nlabels), ascending) :
        LET no_self == Query(sorted)
            kept == Masked(no_self, DupMask(no_self))
        IN  /\ corr_uns_sorted' = sorted
            /\ df_corr' = Renamed(kept)
    /\ columns' = <<"col_1", "col_2", "corr">>
    /\ cpc' = "done"
    /\ UNCHANGED <<nlabels, corr, ascending>>
    /\ UNCHANGED <<ivars, tvars, lvars>>

\* 1.0 on the scale of the entries of the larger matrices
UnitCorr == MaxCorr + 1

\* m[a][b] = m[b][a] for all labels
Symmetric(m, n) == \A a, b \in Labels(n) : m[a][b] = m[b][a]

\* the matrices over n labels: every matrix for n <= MaxFullN; for larger n
\* the symmetric ones with 1.0 on the diagonal and smaller values off it
Matrices(n) ==
    IF n <= MaxFullN
    THEN [Labels(n) -> [Labels(n) -> 0..UnitCorr]]
    ELSE {m \in [Labels(n) -> [Labels(n) -> 0..UnitCorr]] :
            /\ Symmetric(m, n)
            /\ \A a, b \in Labels(n) : (a = b) <=> (m[a][b] = UnitCorr)}

InitCorr ==
    /\ IdleIntervals
    /\ IdleTimer
    /\ IdleLogger
    /\ nlabels \in 1..MaxN
    /\ corr \in Matrices(nlabels)
    /\ ascending \in BOOLEAN
    /\ cpc = "ready"
    /\ corr_uns_sorted = <<>>
    /\ columns = <<>>
    /\ df_corr = <<>>

NextCorr == unstack_corr_df

SpecCorr == InitCorr /\ [][NextCorr]_vars

(* ---------------- properties of unstack_corr_df ---------------- *)

NRows == Len(df_corr)
\* the unordered pair of labels of the i-th returned row
Pair(i) == {df_corr[i].col_1, df_corr[i].col_2}
\* the call has returned for a symmetric input
ReturnedSymmetric == cpc = "done" /\ Symmetric(corr, nlabels)

\* C5: for a symmetric matrix over N unique labels the frame returned has
\* exactly N*(N-1)/2 rows, no row has the same label in both label columns,
\* no two rows have the same unordered pair of labels, and every unordered
\* pair of distinct labels appears.
C5_OneRowPerUnorderedPair ==
    ReturnedSymmetric =>
        /\ NRows = (nlabels * (nlabels - 1)) \div 2
        /\ \A i \in 1..NRows : df_corr[i].col_1 # df_corr[i].col_2
        /\ \A i, j \in 1..NRows : i # j => Pair(i) # Pair(j)
        /\ \A a, b \in Labels(nlabels) :
              a # b => \E i \in 1..NRows : Pair(i) = {a, b}

\* a call on a symmetric matrix of three labels that returned its three
\* pairs, two of them with the same value
C5_Witness ==
    /\ ReturnedSymmetric
    /\ nlabels = 3
    /\ NRows = 3
    /\ \E i, j \in 1..NRows : i # j /\ df_corr[i].corr = df_corr[j].corr

\* C6: the rows returned are ordered by the corr column: non-increasing when
\* ascending is False, non-decreasing when it is True.
C6_RowsOrderedByCorr ==
    cpc = "done" =>
        \A i \in 1..(NRows - 1) :
            IF ascending
            THEN df_corr[i].corr <= df_corr[i + 1].corr
            ELSE df_corr[i].corr >= df_corr[i + 1].corr

\* a call with the default direction that returned rows of different values
C6_Witness ==
    /\ cpc = "done"
    /\ ~ascending
    /\ NRows = 3
    /\ df_corr[1].corr > df_corr[2].corr
    /\ df_corr[2].corr > df_corr[3].corr

\* C7: for a symmetric corr every returned row (A, B, v) has
\* v = corr[A][B] = corr[B][A].
C7_RowCarriesItsOwnValue ==
    ReturnedSymmetric =>
        \A i \in 1..NRows :
            /\ df_corr[i].corr = corr[df_corr[i].col_1][df_corr[i].col_2]
            /\ df_corr[i].corr = corr[df_corr[i].col_2][df_corr[i].col_1]

\* a call on a symmetric matrix whose three pairs have three different values
C7_Witness ==
    /\ ReturnedSymmetric
    /\ NRows = 3
    /\ \A i, j \in 1..NRows : i # j => df_corr[i].corr # df_corr[j].corr
    /\ \E i \in 1..NRows : Rank(df_corr[i].col_1) > Rank(df_corr[i].col_2)

\* the positions in the sorted Series of the two mirrored entries of {a, b}
Mirrored(a, b) ==
    {i \in 1..Len(corr_uns_sorted) :
        {corr_uns_sorted[i].level_0, corr_uns_sorted[i].level_1} = {a, b}}
\* the first of them
FirstOf(a, b) == CHOOSE i \in Mirrored(a, b) : \A j \in Mirrored(a, b) : i <= j

\* C9: for each unordered pair {A, B} of distinct labels the one row kept is
\* the one of the mirrored entries (A,B), (B,A) that comes first in the
\* value-sorted Series, with that entry's orientation and value, and the
\* later one is discarded.
C9_FirstMirroredRowIsKept ==
    cpc = "done" =>
        \A a, b \in Labels(nlabels) :
            a # b =>
                LET f == corr_uns_sorted[FirstOf(a, b)]
                IN  /\ Cardinality(Mirrored(a, b)) = 2
                    /\ \A i \in 1..NRows :
                          Pair(i) = {a, b} =>
                              /\ df_corr[i].col_1 = f.level_0
                              /\ df_corr[i].col_2 = f.level_1
                              /\ df_corr[i].corr = f.val
                    /\ Cardinality({i \in 1..NRows : Pair(i) = {a, b}}) = 1

\* a call where all three pairs tie and the kept rows have both orientations
C9_Witness ==
    /\ ReturnedSymmetric
    /\ NRows = 3
    /\ \A i \in 1..NRows : df_corr[i].corr = df_corr[1].corr
    /\ \E i \in 1..NRows : Rank(df_corr[i].col_1) > Rank(df_corr[i].col_2)
    /\ \E i \in 1..NRows : Rank(df_corr[i].col_1) < Rank(df_corr[i].col_2)

(* ---------------- timer ---------------- *)

\* the sink of a message: print when logger is None, logger.info otherwise
Sink(lg) == IF lg = "None" THEN "print" ELSE "logger.info"

\* f'{x:.2f}' for a duration of e clock units of 1/100 s: seconds, hundredths
Fmt2f(e) == <<e \div 100, e % 100>>

\* f'[{name}] start'
StartMsg(nm, lg) == [sink |-> Sink(lg), name |-> nm, kind |-> "start"]

\* f'[{name}] done in {time.time() - t0:.2f} s'
DoneMsg(nm, lg, e) ==
    [sink |-> Sink(lg), name |-> nm, kind |-> "done", elapsed |-> Fmt2f(e)]

\* with timer(name, logger): the generator runs up to the yield
timer_enter ==
    \E nm \in {"fit", "load"}, lg \in {"None", "logger"} :
        /\ tpc \in {"idle", "closed"}
        /\ uses < MaxUses
        /\ name' = nm
        /\ logger' = lg
        /\ t0' = now
        /\ emitted' = Append(emitted, StartMsg(nm, lg))
        /\ tpc' = "body"
        /\ uses' = uses + 1
        /\ propagated' = "none"
        /\ UNCHANGED now
        /\ UNCHANGED <<ivars, cvars, lvars>>

\* the enclosed block ends normally: the generator is resumed after the yield
timer_exit ==
    /\ tpc = "body"
    /\ emitted' = Append(emitted, DoneMsg(name, logger, now - t0))
    /\ tpc' = "closed"
    /\ UNCHANGED <<name, logger, now, t0, uses, propagated>>
    /\ UNCHANGED <<ivars, cvars, lvars>>

\* the enclosed block raises: the exception is thrown into the generator at
\* the yield, which is inside no try statement, and leaves the with-block
timer_throw ==
    /\ tpc = "body"
    /\ propagated' = "Exception"
    /\ tpc' = "closed"
    /\ UNCHANGED <<name, logger, now, t0, emitted, uses>>
    /\ UNCHANGED <<ivars, cvars, lvars>>

\* time passes
Tick ==
    /\ tpc # "off"
    /\ now < MaxClock
    /\ now' = now + 1
    /\ UNCHANGED <<tpc, name, logger, t0, emitted, uses, propagated>>
    /\ UNCHANGED <<ivars, cvars, lvars>>

InitTimer ==
    /\ IdleIntervals
    /\ IdleCorr
    /\ IdleLogger
    /\ tpc = "idle"
    /\ name = "none"
    /\ logger = "None"
    /\ now = 0
    /\ t0 = 0
    /\ emitted = <<>>
    /\ uses = 0
    /\ propagated = "none"

NextTimer ==
    \/ timer_enter
    \/ timer_exit
    \/ timer_throw
    \/ Tick

SpecTimer == InitTimer /\ [][NextTimer]_vars

(* ---------------- properties of timer ---------------- *)

\* the positions of the messages of one kind, in order of emission
Positions(kind) == {i \in 1..Len(emitted) : emitted[i].kind = kind}

\* C8: every use of timer emits exactly one start message before the block
\* and exactly one completion message after the block ends, the start before
\* the completion, both to logger.info when a logger is given and to print
\* otherwise: once a with-block has been left, every start message emitted so
\* far is followed by its completion message in the same sink.
C8_StartIsFollowedByDone ==
    /\ Cardinality(Positions("start")) = uses
    /\ tpc = "body" => emitted[Len(emitted)] = StartMsg(name, logger)
    /\ tpc = "closed" =>
          /\ Cardinality(Positions("done")) = uses
          /\ \A i \in Positions("start") :
                /\ i + 1 \in Positions("done")
                /\ emitted[i + 1].sink = emitted[i].sink
                /\ emitted[i + 1].name = emitted[i].name

(* ---------------- get_logger ---------------- *)

\* the level names Handler.setLevel accepts; any other string raises ValueError
LevelNames == {"DEBUG", "INFO", "WARNING", "ERROR", "CRITICAL"}
\* the levels the calls are made with: two valid names and an unknown one
LevelArgs == {"DEBUG", "INFO", "VERBOSE"}
\* the out_file arguments: none, a path that can be opened, one that cannot
OutFileArgs == {"None", "run.log", "/missing/run.log"}
\* logging.FileHandler(out_file) opens the file when it is constructed
CanOpen(f) == f = "run.log"

\* line 38 without effect: the handlers of earlier calls stay
ResetHandlers_Keep(hs) == hs

\* logger.handlers = []
ResetHandlers(hs) == <<>>

\* logging.StreamHandler() / logging.FileHandler(out_file) with its level set
Handler(k, lvl, call) == [kind |-> k, level |-> lvl, call |-> call]

\* get_logger(stream_hdlr_level, file_hdlr_level, out_file): the whole call,
\* up to its return or to the first statement that raises
get_logger ==
    \E stream_hdlr_level \in LevelArgs, file_hdlr_level \in LevelArgs,
       f \in OutFileArgs :
        LET h0 == ResetHandlers(root_handlers)
            h1 == Append(h0, Handler("stream", stream_hdlr_level, calls + 1))
            h2 == Append(h1, Handler("file", file_hdlr_level, calls + 1))
        IN  /\ calls < MaxCalls
            /\ calls' = calls + 1
            /\ out_file' = f
            /\ root_level' = "DEBUG"
            /\ IF stream_hdlr_level \notin LevelNames
               THEN \* handler.setLevel(stream_hdlr_level) raises
                    /\ root_handlers' = h0
                    /\ outcome' = "ValueError"
                    /\ UNCHANGED set_up_logged
               ELSE IF f = "None"
               THEN /\ root_handlers' = h1
                    /\ outcome' = "returned"
                    /\ set_up_logged' = set_up_logged + 1
               ELSE IF ~CanOpen(f)
               THEN \* logging.FileHandler(out_file) raises
                    /\ root_handlers' = h1
                    /\ outcome' = "OSError"
                    /\ UNCHANGED set_up_logged
               ELSE IF file_hdlr_level \notin LevelNames
               THEN \* fh.setLevel(file_hdlr_level) raises
                    /\ root_handlers' = h1
                    /\ outcome' = "ValueError"
                    /\ UNCHANGED set_up_logged
               ELSE /\ root_handlers' = h2
                    /\ outcome' = "returned"
                    /\ set_up_logged' = set_up_logged + 1
            /\ UNCHANGED <<ivars, cvars, tvars>>

\* the root logger before the first call: level WARNING, and no handler or
\* one that other code installed
InitLogger ==
    /\ IdleIntervals
    /\ IdleCorr
    /\ IdleTimer
    /\ root_handlers \in {<<>>, <<Handler("stream", "WARNING", 0)>>}
    /\ root_level = "WARNING"
    /\ calls = 0
    /\ out_file = "None"
    /\ outcome = "none"
    /\ set_up_logged = 0

NextLogger == get_logger

SpecLogger == InitLogger /\ [][NextLogger]_vars

(* ---------------- properties of get_logger ---------------- *)

\* the kinds of the handlers of the root logger, in order
HandlerKinds == [i \in 1..Len(root_handlers) |-> root_handlers[i].kind]
\* every handler of the root logger was made by the most recent call
OnlyLatestHandlers == \A i \in 1..Len(root_handlers) : root_handlers[i].call = calls

====
